---- MODULE Spec2Model ----
(***************************************************************************)
(* Model of budget_listing's HTTP API (src/app.py): the three tables       *)
(* (User, Location, Transaction) and one action per request handler.       *)
(* A request handler runs to completion in one step; the database is the   *)
(* only state that survives a request.  `response` holds the last request  *)
(* (its endpoint `op` and the identity of its token) and the reply to it   *)
(* (status `code` and body `json`).                                        *)
(*                                                                         *)
(* The database is whatever DATABASE_URL names.  The schema declares       *)
(* transaction.location_id as a foreign key to location.name; a database   *)
(* that enforces foreign keys (PostgreSQL) refuses a commit that breaks    *)
(* it, one that does not (SQLite without PRAGMA foreign_keys) accepts it.  *)
(* `fkEnforced` is chosen at start and never changes.                      *)
(*                                                                         *)
(* Left out: the timestamps created_at and updated_at, and the substring   *)
(* search search_locations_by_query, which reads only.                     *)
(***************************************************************************)
EXTENDS Integers, Sequences, FiniteSets, TLC

VARIABLES
    users,              \* rows of table user
    locations,          \* rows of table location
    transactions,       \* rows of table transaction
    nextUserId,         \* autoincrement of user.id
    nextLocationId,     \* autoincrement of location.id
    nextTransactionId,  \* autoincrement of transaction.id
    tokens,             \* access tokens issued so far
    fkEnforced,         \* does the database behind DATABASE_URL enforce foreign keys
    response            \* the last request and the reply to it

vars == <<users, locations, transactions, nextUserId, nextLocationId,
          nextTransactionId, tokens, fkEnforced, response>>

db == <<users, locations, transactions>>

counters == <<nextUserId, nextLocationId, nextTransactionId>>

(***************************************************************************)
(* Bounds of the model.                                                    *)
(***************************************************************************)
MaxUsers == 2

MaxLocations == 2

MaxTransactions == 2

(***************************************************************************)
(* Python / JSON values.                                                   *)
(***************************************************************************)
\* SQL NULL and Python None
NULL == "<null>"

\* dict.get(key): None when the key is absent
Get(data, key) == IF key \in DOMAIN data THEN data[key] ELSE NULL

\* dict.get(key, default)
GetOr(data, key, default) == IF key \in DOMAIN data THEN data[key] ELSE default

\* Python truthiness of a string-or-None value: `not v`
Falsy(v) == v = NULL \/ v = ""

\* str(user.id), and the database's coercion of that text back to an integer
IdentityOf(id) == ToString(id)

IntOfIdentity(identity) ==
    IF \E n \in 1..(MaxUsers + 1) : ToString(n) = identity
    THEN CHOOSE n \in 1..(MaxUsers + 1) : ToString(n) = identity
    ELSE 0

(***************************************************************************)
(* flask_bcrypt: a hash carries its salt; checking re-hashes the candidate *)
(* password with the stored salt.                                          *)
(***************************************************************************)
generate_password_hash(password, salt) == <<"$2b$", salt, password>>

check_password_hash(hash, password) == hash = <<"$2b$", hash[2], password>>

(***************************************************************************)
(* flask_jwt_extended: a token carries the identity it was created for;    *)
(* jwt_required accepts the tokens this application signed.                *)
(***************************************************************************)
create_access_token(identity) == [identity |-> identity]

jwt_required(token) == token \in tokens

get_jwt_identity(token) == token.identity

\* the last request (endpoint, <int:id> of the route or 0, identity of the
\* token or NULL) and the reply to it (status code, JSON body)
Reply(op, target, code, identity, json) ==
    [op |-> op, target |-> target, identity |-> identity,
     code |-> code, json |-> json]

Unauthorized(op, target) ==
    Reply(op, target, 401, NULL, [msg |-> "Missing Authorization Header"])

\* an exception no handler catches: Flask replies 500, the session is dropped
ServerError(op, target, user_id) ==
    Reply(op, target, 500, user_id, [message |-> "Internal Server Error"])

\* first_or_404, get_or_404
NotFound(op, target, user_id) ==
    Reply(op, target, 404, user_id, [message |-> "Not Found"])

(***************************************************************************)
(* Queries.                                                                *)
(***************************************************************************)
UserByEmail_byName(email) == {u \in users : u.name = email}

UserByEmail(email) == {u \in users : u.email = email}

UserById(identity) == {u \in users : u.id = IntOfIdentity(identity)}

(***************************************************************************)
(* Auth endpoints.                                                         *)
(***************************************************************************)
register(data, salt) ==
    /\ IF Falsy(Get(data, "name")) \/ Falsy(Get(data, "email"))
          \/ Falsy(Get(data, "password"))
       THEN /\ response' = Reply("register", 0, 400, NULL,
                                 [message |-> "Semua field wajib diisi"])
            /\ UNCHANGED <<db, counters, tokens, fkEnforced>>
       ELSE IF UserByEmail(data["email"]) # {}
       THEN /\ response' = Reply("register", 0, 409, NULL,
                                 [message |-> "Email sudah terdaftar"])
            /\ UNCHANGED <<db, counters, tokens, fkEnforced>>
       ELSE LET user == [id |-> nextUserId,
                         name |-> data["name"],
                         email |-> data["email"],
                         password_hash |->
                             generate_password_hash(data["password"], salt)]
                token == create_access_token(IdentityOf(user.id))
            IN /\ nextUserId <= MaxUsers
               /\ users' = users \cup {user}
               /\ nextUserId' = nextUserId + 1
               /\ tokens' = tokens \cup {token}
               /\ response' = Reply("register", 0, 201, NULL,
                                    [message |-> "User registered successfully",
                                     token |-> token])
               /\ UNCHANGED <<locations, transactions, nextLocationId,
                              nextTransactionId, fkEnforced>>

login_anyPassword(data) ==
    IF Falsy(Get(data, "email")) \/ Falsy(Get(data, "password"))
    THEN /\ response' = Reply("login", 0, 400, NULL,
                              [message |-> "Email dan password wajib diisi"])
         /\ UNCHANGED <<db, counters, tokens, fkEnforced>>
    ELSE IF UserByEmail(data["email"]) # {}
    THEN LET user == CHOOSE u \in UserByEmail(data["email"]) : TRUE
             token == create_access_token(IdentityOf(user.id))
         IN /\ tokens' = tokens \cup {token}
            /\ response' = Reply("login", 0, 200, NULL,
                                 [message |-> "Login successful",
                                  token |-> token])
            /\ UNCHANGED <<db, counters, fkEnforced>>
    ELSE /\ response' = Reply("login", 0, 401, NULL,
                              [message |-> "Invalid credentials"])
         /\ UNCHANGED <<db, counters, tokens, fkEnforced>>

login(data) ==
    IF Falsy(Get(data, "email")) \/ Falsy(Get(data, "password"))
    THEN /\ response' = Reply("login", 0, 400, NULL,
                              [message |-> "Email dan password wajib diisi"])
         /\ UNCHANGED <<db, counters, tokens, fkEnforced>>
    ELSE IF \E u \in UserByEmail(data["email"]) :
                check_password_hash(u.password_hash, data["password"])
    THEN LET user == CHOOSE u \in UserByEmail(data["email"]) : TRUE
             token == create_access_token(IdentityOf(user.id))
         IN /\ tokens' = tokens \cup {token}
            /\ response' = Reply("login", 0, 200, NULL,
                                 [message |-> "Login successful",
                                  token |-> token])
            /\ UNCHANGED <<db, counters, fkEnforced>>
    ELSE /\ response' = Reply("login", 0, 401, NULL,
                              [message |-> "Invalid credentials"])
         /\ UNCHANGED <<db, counters, tokens, fkEnforced>>

me(token) ==
    IF ~jwt_required(token)
    THEN /\ response' = Unauthorized("me", 0)
         /\ UNCHANGED <<db, counters, tokens, fkEnforced>>
    ELSE LET user_id == get_jwt_identity(token)
             user == CHOOSE u \in UserById(user_id) : TRUE
         IN /\ response' =
                 IF UserById(user_id) = {}
                 \* user is None: AttributeError
                 THEN ServerError("me", 0, user_id)
                 ELSE Reply("me", 0, 200, user_id,
                            [id |-> user.id, name |-> user.name,
                             email |-> user.email])
            /\ UNCHANGED <<db, counters, tokens, fkEnforced>>

(***************************************************************************)
(* Dates.  A request carries a date as text 'YYYY-MM-DD', modelled as the  *)
(* triple <<year, month, day>>; strptime rejects a triple that is no       *)
(* calendar date (ValueError) and yields a date object, strftime prints a  *)
(* date object back as text.                                               *)
(***************************************************************************)
DaysInMonth(year, month) ==
    IF month = 2
    THEN (IF year % 4 = 0 /\ (year % 100 # 0 \/ year % 400 = 0) THEN 29 ELSE 28)
    ELSE IF month \in {4, 6, 9, 11} THEN 30 ELSE 31

strptime_ok(text) ==
    /\ text[2] \in 1..12
    /\ text[3] \in 1..DaysInMonth(text[1], text[2])

strptime(text) == [year |-> text[1], month |-> text[2], day |-> text[3]]

strftime(date) == <<date.year, date.month, date.day>>

(***************************************************************************)
(* JSON scalars of a location body, and Python's float().                  *)
(***************************************************************************)
Num(n) == <<"number", n>>

Str(t) == <<"string", t>>

float_ok(v) == v[1] = "number"

float(v) == v[2]

(***************************************************************************)
(* Transaction queries.                                                    *)
(***************************************************************************)
\* Transaction.query.filter_by(user_id=user_id)
UserTransactions(user_id) ==
    {t \in transactions : t.user_id = IntOfIdentity(user_id)}

\* Transaction.query.filter_by(id=id, user_id=user_id)
OwnedTransaction_anyOwner(id, user_id) == {t \in transactions : t.id = id}

OwnedTransaction(id, user_id) ==
    {t \in transactions : t.id = id /\ t.user_id = IntOfIdentity(user_id)}

\* Location.query.filter_by(name=name)
LocationByName(name) == {l \in locations : l.name = name}

\* Location.query.filter(Location.name == name, Location.id != id)
OtherLocationByName_anyId(name, id) == {l \in locations : l.name = name}

OtherLocationByName(name, id) ==
    {l \in locations : l.name = name /\ l.id # id}

\* Location.query.get(id)
LocationById(id) == {l \in locations : l.id = id}

\* the relationship Transaction.location: the Location named by location_id
LocationOf(t) == {l \in locations : l.name = t.location_id}

\* the relationship Location.transactions
LocationTransactions_byId(location) ==
    {t \in transactions : t.location_id = ToString(location.id)}

LocationTransactions(location) ==
    {t \in transactions : t.location_id = location.name}

\* the foreign key transaction.location_id -> location.name, on a table content
ForeignKeyHolds(txs, locs) ==
    \A t \in txs :
        t.location_id # NULL => \E l \in locs : l.name = t.location_id

\* does the database accept this content at commit
CommitOk(txs, locs) == fkEnforced => ForeignKeyHolds(txs, locs)

LocationJson(l) ==
    [id |-> l.id, name |-> l.name, latitude |-> l.latitude,
     longitude |-> l.longitude]

\* an entry of the list of get_transactions
TransactionJson(t) ==
    [id |-> t.id, type |-> t.type, amount |-> t.amount,
     category |-> t.category, note |-> t.note, date |-> strftime(t.date),
     currency_code |-> t.currency_code, currency_rate |-> t.currency_rate,
     time_zone |-> t.time_zone,
     location |-> {LocationJson(l) : l \in LocationOf(t)}]

\* the reply of get_transaction_by_id
TransactionDetailJson(t) ==
    [id |-> t.id, type |-> t.type, amount |-> t.amount,
     category |-> t.category, note |-> t.note, date |-> strftime(t.date),
     currency_code |-> t.currency_code, currency_rate |-> t.currency_rate,
     time_zone |-> t.time_zone, location_name |-> t.location_id,
     location |-> {LocationJson(l) : l \in LocationOf(t)}]

\* data['type'], data['amount'], data['category'], data['date'] and strptime
\* raise on a body without these keys or with a date that is none
FieldsOk(data) ==
    /\ {"type", "amount", "category", "date"} \subseteq DOMAIN data
    /\ strptime_ok(data["date"])

TransactionRow(id, user_id, data) ==
    [id |-> id,
     user_id |-> IntOfIdentity(user_id),
     type |-> data["type"],
     amount |-> data["amount"],
     category |-> data["category"],
     note |-> GetOr(data, "note", ""),
     date |-> strptime(data["date"]),
     currency_code |-> GetOr(data, "currency_code", "IDR"),
     currency_rate |-> GetOr(data, "currency_rate", 1),
     time_zone |-> GetOr(data, "time_zone", "Asia/Jakarta"),
     location_id |-> Get(data, "location_id")]

(***************************************************************************)
(* Transaction endpoints.                                                  *)
(***************************************************************************)
get_transactions(token) ==
    /\ UNCHANGED <<db, counters, tokens, fkEnforced>>
    /\ IF ~jwt_required(token)
       THEN response' = Unauthorized("get_transactions", 0)
       ELSE LET user_id == get_jwt_identity(token)
            IN response' = Reply("get_transactions", 0, 200, user_id,
                   [transactions |->
                       {TransactionJson(t) : t \in UserTransactions(user_id)}])

get_transaction_by_id(token, id) ==
    /\ UNCHANGED <<db, counters, tokens, fkEnforced>>
    /\ IF ~jwt_required(token)
       THEN response' = Unauthorized("get_transaction_by_id", id)
       ELSE LET user_id == get_jwt_identity(token)
                found == OwnedTransaction(id, user_id)
            IN IF found = {}
               \* `abort` is not imported: NameError
               THEN response' = ServerError("get_transaction_by_id", id, user_id)
               ELSE response' = Reply("get_transaction_by_id", id, 200, user_id,
                        [transaction |->
                            TransactionDetailJson(CHOOSE t \in found : TRUE)])

add_transaction(token, data) ==
    IF ~jwt_required(token)
    THEN /\ response' = Unauthorized("add_transaction", 0)
         /\ UNCHANGED <<db, counters, tokens, fkEnforced>>
    ELSE LET user_id == get_jwt_identity(token)
             location_name == Get(data, "location_id")
         IN IF ~Falsy(location_name) /\ LocationByName(location_name) = {}
            THEN /\ response' = Reply("add_transaction", 0, 400, user_id,
                                      [message |-> "Invalid location name"])
                 /\ UNCHANGED <<db, counters, tokens, fkEnforced>>
            ELSE IF ~FieldsOk(data)
            THEN /\ response' = ServerError("add_transaction", 0, user_id)
                 /\ UNCHANGED <<db, counters, tokens, fkEnforced>>
            ELSE LET t == TransactionRow(nextTransactionId, user_id, data)
                 IN IF CommitOk(transactions \cup {t}, locations)
                    THEN /\ nextTransactionId <= MaxTransactions
                         /\ transactions' = transactions \cup {t}
                         /\ nextTransactionId' = nextTransactionId + 1
                         /\ response' = Reply("add_transaction", 0, 201, user_id,
                                [message |-> "Transaction added successfully"])
                         /\ UNCHANGED <<users, locations, nextUserId,
                                        nextLocationId, tokens, fkEnforced>>
                    ELSE /\ response' = Reply("add_transaction", 0, 500, user_id,
                                [message |-> "Failed to add transaction"])
                         /\ UNCHANGED <<db, counters, tokens, fkEnforced>>

update_transaction_noRollback(token, id, data) ==
    IF ~jwt_required(token)
    THEN /\ response' = Unauthorized("update_transaction", id)
         /\ UNCHANGED <<db, counters, tokens, fkEnforced>>
    ELSE LET user_id == get_jwt_identity(token)
             found == OwnedTransaction(id, user_id)
         IN IF found = {}
            THEN /\ response' = NotFound("update_transaction", id, user_id)
                 /\ UNCHANGED <<db, counters, tokens, fkEnforced>>
            ELSE IF ~FieldsOk(data)
            THEN /\ response' = ServerError("update_transaction", id, user_id)
                 /\ UNCHANGED <<db, counters, tokens, fkEnforced>>
            ELSE LET t == CHOOSE x \in found : TRUE
                     updated == TransactionRow(t.id, user_id, data)
                     txs == (transactions \ {t}) \cup {updated}
                 IN /\ transactions' = txs
                    /\ response' =
                         IF CommitOk(txs, locations)
                         THEN Reply("update_transaction", id, 200, user_id,
                                    [message |-> "Transaction updated"])
                         ELSE ServerError("update_transaction", id, user_id)
                    /\ UNCHANGED <<users, locations, counters, tokens,
                                   fkEnforced>>

update_transaction(token, id, data) ==
    IF ~jwt_required(token)
    THEN /\ response' = Unauthorized("update_transaction", id)
         /\ UNCHANGED <<db, counters, tokens, fkEnforced>>
    ELSE LET user_id == get_jwt_identity(token)
             found == OwnedTransaction(id, user_id)
         IN IF found = {}
            THEN /\ response' = NotFound("update_transaction", id, user_id)
                 /\ UNCHANGED <<db, counters, tokens, fkEnforced>>
            ELSE IF ~FieldsOk(data)
            THEN /\ response' = ServerError("update_transaction", id, user_id)
                 /\ UNCHANGED <<db, counters, tokens, fkEnforced>>
            ELSE LET t == CHOOSE x \in found : TRUE
                     updated == TransactionRow(t.id, user_id, data)
                     txs == (transactions \ {t}) \cup {updated}
                 IN IF CommitOk(txs, locations)
                    THEN /\ transactions' = txs
                         /\ response' = Reply("update_transaction", id, 200, user_id,
                                [message |-> "Transaction updated"])
                         /\ UNCHANGED <<users, locations, counters, tokens,
                                        fkEnforced>>
                    \* IntegrityError at commit, caught by nobody
                    ELSE /\ response' = ServerError("update_transaction", id, user_id)
                         /\ UNCHANGED <<db, counters, tokens, fkEnforced>>

delete_transaction(token, id) ==
    IF ~jwt_required(token)
    THEN /\ response' = Unauthorized("delete_transaction", id)
         /\ UNCHANGED <<db, counters, tokens, fkEnforced>>
    ELSE LET user_id == get_jwt_identity(token)
             found == OwnedTransaction(id, user_id)
         IN IF found = {}
            THEN /\ response' = NotFound("delete_transaction", id, user_id)
                 /\ UNCHANGED <<db, counters, tokens, fkEnforced>>
            ELSE /\ transactions' = transactions \ found
                 /\ response' = Reply("delete_transaction", id, 200, user_id,
                                      [message |-> "Transaction deleted"])
                 /\ UNCHANGED <<users, locations, counters, tokens, fkEnforced>>

(***************************************************************************)
(* summary: the rows of the caller in the month and year asked for, then   *)
(* two sums and their difference.                                          *)
(***************************************************************************)
SummaryRows_anyYear(user_id, month, year) ==
    {t \in UserTransactions(user_id) : t.date.month = month}

SummaryRows(user_id, month, year) ==
    {t \in UserTransactions(user_id) :
        t.date.month = month /\ t.date.year = year}

\* sum(t.amount for t in rows if t.type == type)
RECURSIVE SumAmounts(_, _)
SumAmounts(rows, type) ==
    IF rows = {} THEN 0
    ELSE LET t == CHOOSE x \in rows : TRUE
         IN (IF t.type = type THEN t.amount ELSE 0)
            + SumAmounts(rows \ {t}, type)

\* args: the query string, its numerals read by int(); today: datetime.today()
summary(token, args, today) ==
    /\ UNCHANGED <<db, counters, tokens, fkEnforced>>
    /\ IF ~jwt_required(token)
       THEN response' = Unauthorized("summary", 0)
       ELSE LET user_id == get_jwt_identity(token)
                month == GetOr(args, "month", today.month)
                year == GetOr(args, "year", today.year)
                rows == SummaryRows(user_id, month, year)
                income_total == SumAmounts(rows, "income")
                expense_total == SumAmounts(rows, "expense")
            IN response' = Reply("summary", 0, 200, user_id,
                   [income_total |-> income_total,
                    expense_total |-> expense_total,
                    balance |-> income_total - expense_total])

(***************************************************************************)
(* Location endpoints.                                                     *)
(***************************************************************************)
LocationFieldsMissing(data) ==
    \/ ~("name" \in DOMAIN data) \/ data["name"] = ""
    \/ ~("latitude" \in DOMAIN data)
    \/ ~("longitude" \in DOMAIN data)

add_location(token, data) ==
    IF ~jwt_required(token)
    THEN /\ response' = Unauthorized("add_location", 0)
         /\ UNCHANGED <<db, counters, tokens, fkEnforced>>
    ELSE LET user_id == get_jwt_identity(token)
         IN IF LocationFieldsMissing(data)
            THEN /\ response' = Reply("add_location", 0, 400, user_id,
                        [error |-> "Nama, latitude, dan longitude harus diisi"])
                 /\ UNCHANGED <<db, counters, tokens, fkEnforced>>
            ELSE IF LocationByName(data["name"]) # {}
            THEN /\ response' = Reply("add_location", 0, 409, user_id,
                        [error |-> "Lokasi dengan nama sudah digunakan"])
                 /\ UNCHANGED <<db, counters, tokens, fkEnforced>>
            ELSE IF ~(float_ok(data["latitude"]) /\ float_ok(data["longitude"]))
            \* ValueError inside the try block
            THEN /\ response' = Reply("add_location", 0, 500, user_id,
                        [error |-> "Terjadi kesalahan"])
                 /\ UNCHANGED <<db, counters, tokens, fkEnforced>>
            ELSE LET new_location ==
                         [id |-> nextLocationId,
                          name |-> data["name"],
                          latitude |-> float(data["latitude"]),
                          longitude |-> float(data["longitude"])]
                 IN /\ nextLocationId <= MaxLocations
                    /\ locations' = locations \cup {new_location}
                    /\ nextLocationId' = nextLocationId + 1
                    /\ response' = Reply("add_location", 0, 201, user_id,
                           [message |-> "Lokasi berhasil ditambahkan",
                            location |-> LocationJson(new_location)])
                    /\ UNCHANGED <<users, transactions, nextUserId,
                                   nextTransactionId, tokens, fkEnforced>>

get_all_locations(token) ==
    /\ UNCHANGED <<db, counters, tokens, fkEnforced>>
    /\ IF ~jwt_required(token)
       THEN response' = Unauthorized("get_all_locations", 0)
       ELSE response' = Reply("get_all_locations", 0, 200, get_jwt_identity(token),
                              [locations |-> {LocationJson(l) : l \in locations}])

update_location(token, id, data) ==
    IF ~jwt_required(token)
    THEN /\ response' = Unauthorized("update_location", id)
         /\ UNCHANGED <<db, counters, tokens, fkEnforced>>
    ELSE LET user_id == get_jwt_identity(token)
         IN IF LocationById(id) = {}
            THEN /\ response' = NotFound("update_location", id, user_id)
                 /\ UNCHANGED <<db, counters, tokens, fkEnforced>>
            ELSE IF LocationFieldsMissing(data)
            THEN /\ response' = Reply("update_location", id, 400, user_id,
                                      [error |-> "Semua data wajib diisi"])
                 /\ UNCHANGED <<db, counters, tokens, fkEnforced>>
            ELSE IF OtherLocationByName(data["name"], id) # {}
            THEN /\ response' = Reply("update_location", id, 409, user_id,
                                      [error |-> "Nama lokasi sudah dipakai"])
                 /\ UNCHANGED <<db, counters, tokens, fkEnforced>>
            ELSE LET location == CHOOSE l \in LocationById(id) : TRUE
                     updated == [id |-> id,
                                 name |-> data["name"],
                                 latitude |-> data["latitude"][2],
                                 longitude |-> data["longitude"][2]]
                     locs == (locations \ {location}) \cup {updated}
                 IN IF CommitOk(transactions, locs)
                    THEN /\ locations' = locs
                         /\ response' = Reply("update_location", id, 200, user_id,
                                [message |-> "Lokasi berhasil diperbarui"])
                         /\ UNCHANGED <<users, transactions, counters, tokens,
                                        fkEnforced>>
                    \* IntegrityError at commit: a transaction names the old name
                    ELSE /\ response' = ServerError("update_location", id, user_id)
                         /\ UNCHANGED <<db, counters, tokens, fkEnforced>>

delete_location(token, id) ==
    IF ~jwt_required(token)
    THEN /\ response' = Unauthorized("delete_location", id)
         /\ UNCHANGED <<db, counters, tokens, fkEnforced>>
    ELSE LET user_id == get_jwt_identity(token)
         IN IF LocationById(id) = {}
            THEN /\ response' = NotFound("delete_location", id, user_id)
                 /\ UNCHANGED <<db, counters, tokens, fkEnforced>>
            ELSE LET location == CHOOSE l \in LocationById(id) : TRUE
                 IN IF LocationTransactions(location) # {}
                    THEN /\ response' = Reply("delete_location", id, 400, user_id,
                                [error |-> "Lokasi tidak bisa dihapus karena sedang digunakan"])
                         /\ UNCHANGED <<db, counters, tokens, fkEnforced>>
                    ELSE /\ locations' = locations \ {location}
                         /\ response' = Reply("delete_location", id, 200, user_id,
                                [message |-> "Lokasi berhasil dihapus"])
                         /\ UNCHANGED <<users, transactions, counters, tokens,
                                        fkEnforced>>

(***************************************************************************)
(* Initial state: db.create_all() on an empty database.                    *)
(***************************************************************************)
Init ==
    /\ users = {}
    /\ locations = {}
    /\ transactions = {}
    /\ nextUserId = 1
    /\ nextLocationId = 1
    /\ nextTransactionId = 1
    /\ tokens = {}
    /\ fkEnforced \in BOOLEAN
    /\ response = Reply("start", 0, 200, NULL, [message |-> "db.create_all"])

(***************************************************************************)
(* Request bodies and tokens a client may send.                            *)
(***************************************************************************)
Salts == {"s1", "s2"}

\* a token this application never signed
ForgedToken == [identity |-> "1", forged |-> TRUE]

\* registrations: the same email under another name and password, other
\* emails, and bodies with an empty or absent field
AuthBodies ==
    {[name |-> "Ana", email |-> "ana@x.com", password |-> "pw123"],
     [name |-> "Budi", email |-> "ana@x.com", password |-> "pw456"],
     [name |-> "Budi", email |-> "budi@x.com", password |-> "pw123"],
     [name |-> "Cici", email |-> "cici@x.com", password |-> "pw456"],
     [name |-> "", email |-> "ana@x.com", password |-> "pw123"],
     [name |-> "Ana", email |-> "ana@x.com", password |-> ""],
     [name |-> "Ana", password |-> "pw123"]}

LoginBodies ==
    [email : {"ana@x.com", "budi@x.com", "cici@x.com"},
     password : {"pw123", "pw456"}]
    \cup {[email |-> "ana@x.com"], [email |-> "", password |-> "pw123"]}

NextAuth ==
    \/ \E data \in AuthBodies, salt \in Salts : register(data, salt)
    \/ \E data \in LoginBodies : login(data)
    \/ \E token \in tokens \cup {ForgedToken} : me(token)

SpecAuth == Init /\ [][NextAuth]_vars

(***************************************************************************)
(* The ledger: two users and their transactions.                           *)
(***************************************************************************)
\* Ana registers first, Budi second, anyone later finds the email taken
LedgerUser(n) ==
    IF n = 1
    THEN [name |-> "Ana", email |-> "ana@x.com", password |-> "pw123"]
    ELSE [name |-> "Budi", email |-> "budi@x.com", password |-> "pw456"]

LedgerBodies ==
    {[type |-> "income", amount |-> 500, category |-> "salary",
      date |-> <<2024, 1, 15>>],
     [type |-> "expense", amount |-> 200, category |-> "food",
      date |-> <<2024, 1, 20>>],
     [type |-> "income", amount |-> 200, category |-> "gift",
      date |-> <<2024, 2, 29>>, note |-> "leap day"],
     [type |-> "expense", amount |-> 500, category |-> "rent",
      date |-> <<2023, 1, 15>>, currency_code |-> "USD"],
     [type |-> "transfer", amount |-> 300, category |-> "savings",
      date |-> <<2024, 1, 15>>],
     [type |-> "income", amount |-> 500, category |-> "salary",
      date |-> <<2023, 2, 29>>]}

SummaryArgs ==
    {[month |-> 1, year |-> 2024], [month |-> 2, year |-> 2024],
     [month |-> 1, year |-> 2023], <<>>}

Todays == {[year |-> 2024, month |-> 1, day |-> 31]}

TransactionIds == 1..MaxTransactions

Callers == tokens \cup {ForgedToken}

\* bodies of an update: a changed type, amount and month, and a date that is none
LedgerUpdates ==
    {[type |-> "expense", amount |-> 200, category |-> "food",
      date |-> <<2024, 1, 20>>],
     [type |-> "income", amount |-> 200, category |-> "gift",
      date |-> <<2024, 2, 29>>, note |-> "leap day"],
     [type |-> "income", amount |-> 500, category |-> "salary",
      date |-> <<2023, 2, 29>>]}

NextLedger ==
    \/ register(LedgerUser(nextUserId), "s1")
    \/ \E token \in Callers : get_transactions(token)
    \/ \E token \in tokens, id \in TransactionIds :
          get_transaction_by_id(token, id)
    \/ \E token \in tokens, data \in LedgerBodies :
          add_transaction(token, data)
    \/ \E token \in tokens, id \in TransactionIds, data \in LedgerUpdates :
          update_transaction(token, id, data)
    \/ \E token \in tokens, id \in TransactionIds :
          delete_transaction(token, id)
    \/ \E token \in tokens, args \in SummaryArgs, today \in Todays :
          summary(token, args, today)

\* no body of the ledger carries a location, so the foreign key plays no part
InitLedger == Init /\ fkEnforced = FALSE

SpecLedger == InitLedger /\ [][NextLedger]_vars

(***************************************************************************)
(* The writes of the whole service, with locations: one user, the         *)
(* locations "home" and "cafe", transactions that differ in their location *)
(* reference only (none, "home", the empty string).                        *)
(***************************************************************************)
OneUser == {[name |-> "Ana", email |-> "ana@x.com", password |-> "pw123"],
            [name |-> "Ana", email |-> "ana@x.com"]}

Logins == {[email |-> "ana@x.com", password |-> "pw456"],
           [email |-> "ana@x.com"]}

LocationNames == {"home", "cafe"}

LocationBodies ==
    [name : LocationNames, latitude : {Num(-6)}, longitude : {Num(106)}]
    \cup {[name |-> "", latitude |-> Num(-6), longitude |-> Num(106)],
          [name |-> "home", latitude |-> Num(-6)],
          [name |-> "home", latitude |-> Str("north"), longitude |-> Num(106)]}

LocationUpdates ==
    [name : LocationNames, latitude : {Num(-6)}, longitude : {Num(106)}]
    \cup {[name |-> "home", latitude |-> Num(-7), longitude |-> Num(106)],
          [name |-> "home", longitude |-> Num(106)]}

LocationIds == 1..MaxLocations

TaggedBodies ==
    {[type |-> "expense", amount |-> 200, category |-> "food",
      date |-> <<2024, 1, 20>>],
     [type |-> "expense", amount |-> 200, category |-> "food",
      date |-> <<2024, 1, 20>>, location_id |-> "home"],
     [type |-> "expense", amount |-> 200, category |-> "food",
      date |-> <<2024, 1, 20>>, location_id |-> ""],
     [type |-> "expense", amount |-> 200, category |-> "food"]}

Next ==
    \/ \E data \in OneUser : register(data, "s1")
    \/ \E data \in Logins : login(data)
    \/ \E token \in Callers, data \in TaggedBodies :
          add_transaction(token, data)
    \/ \E token \in tokens, id \in TransactionIds, data \in TaggedBodies :
          update_transaction(token, id, data)
    \/ \E token \in tokens, id \in TransactionIds :
          delete_transaction(token, id)
    \/ \E token \in Callers, data \in LocationBodies :
          add_location(token, data)
    \/ \E token \in tokens : get_all_locations(token)
    \/ \E token \in tokens, id \in LocationIds, data \in LocationUpdates :
          update_location(token, id, data)
    \/ \E token \in tokens, id \in LocationIds :
          delete_location(token, id)

Spec == Init /\ [][Next]_vars

(***************************************************************************)
(* The shared catalog: two users, their transactions and the locations     *)
(* any of them may create, rename and delete.                              *)
(***************************************************************************)
SharedBodies ==
    {[type |-> "expense", amount |-> 200, category |-> "food",
      date |-> <<2024, 1, 20>>],
     [type |-> "expense", amount |-> 200, category |-> "food",
      date |-> <<2024, 1, 20>>, location_id |-> "home"]}

SharedLocations ==
    [name : LocationNames, latitude : {Num(-6)}, longitude : {Num(106)}]

NextShared ==
    \/ register(LedgerUser(nextUserId), "s1")
    \/ \E token \in tokens, data \in SharedBodies :
          add_transaction(token, data)
    \/ \E token \in tokens, id \in TransactionIds, data \in SharedBodies :
          update_transaction(token, id, data)
    \/ \E token \in tokens, id \in TransactionIds :
          delete_transaction(token, id)
    \/ \E token \in tokens, data \in SharedLocations :
          add_location(token, data)
    \/ \E token \in tokens, id \in LocationIds, data \in SharedLocations :
          update_location(token, id, data)
    \/ \E token \in tokens, id \in LocationIds :
          delete_location(token, id)

SpecShared == Init /\ [][NextShared]_vars

(***************************************************************************)
(* C4: email uniqueness.  No two stored users share an email, and a        *)
(* register call that carries a name and a password and whose email        *)
(* already belongs to a stored user gets the conflict reply (409), creates *)
(* no user and changes no stored user.                                     *)
(***************************************************************************)
EmailsUnique == \A u, v \in users : u.email = v.email => u = v

Carries(data, key) == key \in DOMAIN data /\ data[key] # ""

RegisterConflict ==
    \A data \in AuthBodies, salt \in Salts :
        (/\ response'.op = "register"
         /\ Carries(data, "name") /\ Carries(data, "password")
         /\ Carries(data, "email")
         /\ \E u \in users : u.email = data["email"]
         /\ register(data, salt))
        => /\ response'.code = 409
           /\ users' = users

C4_EmailUniqueness ==
    EmailsUnique /\ [][EmailsUnique' /\ RegisterConflict]_vars

C4_Witness ==
    /\ response.op = "register" /\ response.code = 409
    /\ Cardinality(users) = 1

(***************************************************************************)
(* C5: a successful register returns a token whose identity is the id of   *)
(* the user just created, and me with that token returns that user's name  *)
(* and email; a login with the email and password of a registered user     *)
(* succeeds with a token of that user's id; a login that carries an email  *)
(* and a password that are not those of one registered user gets the       *)
(* bad-credentials reply (401).                                            *)
(***************************************************************************)
HashOf(u, password) ==
    \E salt \in Salts : u.password_hash = generate_password_hash(password, salt)

RegisterIssuesOwnToken ==
    \A data \in AuthBodies, salt \in Salts :
        (response'.op = "register" /\ response'.code = 201
         /\ register(data, salt))
        => \E u \in users' \ users :
              /\ u.name = data["name"] /\ u.email = data["email"]
              /\ users' = users \cup {u}
              /\ response'.json.token \in tokens'
              /\ response'.json.token.identity = ToString(u.id)
              /\ \A v \in users : v.id # u.id

MeResolvesToken ==
    \A token \in tokens :
        (response'.op = "me" /\ me(token))
        => \E u \in users :
              /\ ToString(u.id) = token.identity
              /\ response'.code = 200
              /\ response'.json = [id |-> u.id, name |-> u.name,
                                   email |-> u.email]

EveryTokenResolves ==
    \A token \in tokens :
        Cardinality({u \in users : ToString(u.id) = token.identity}) = 1

LoginMatchesRegistration ==
    \A data \in LoginBodies :
        (/\ response'.op = "login"
         /\ Carries(data, "email") /\ Carries(data, "password")
         /\ login(data))
        => IF \E u \in users :
                 u.email = data["email"] /\ HashOf(u, data["password"])
           THEN \E u \in users :
                   /\ u.email = data["email"]
                   /\ response'.code = 200
                   /\ response'.json.token.identity = ToString(u.id)
                   /\ response'.json.token \in tokens'
           ELSE response'.code = 401 /\ tokens' = tokens

C5_RegisterThenLogin ==
    /\ EveryTokenResolves
    /\ [][EveryTokenResolves' /\ RegisterIssuesOwnToken /\ MeResolvesToken
           /\ LoginMatchesRegistration]_vars

\* the second user has logged in again after registering
C5_Witness ==
    /\ response.op = "login" /\ response.code = 200
    /\ response.json.token.identity = "2"
    /\ \E u \in users : u.id = 2

(***************************************************************************)
(* Vocabulary of the ledger claims.                                        *)
(***************************************************************************)
OwnedBy(t, identity) == ToString(t.user_id) = identity

Authenticated(r) == r.identity # NULL

\* the amount transaction n adds to a user's total of one type in one month
Contribution(n, identity, month, year, type) ==
    LET rows == {t \in transactions :
                    /\ t.id = n /\ OwnedBy(t, identity) /\ t.type = type
                    /\ t.date.year = year /\ t.date.month = month}
    IN IF rows = {} THEN 0 ELSE (CHOOSE t \in rows : TRUE).amount

RECURSIVE TotalUpTo(_, _, _, _, _)
TotalUpTo(n, identity, month, year, type) ==
    IF n = 0 THEN 0
    ELSE TotalUpTo(n - 1, identity, month, year, type)
         + Contribution(n, identity, month, year, type)

LedgerTotal(identity, month, year, type) ==
    TotalUpTo(MaxTransactions + 1, identity, month, year, type)

SummaryOf(identity, month, year) ==
    [income_total |-> LedgerTotal(identity, month, year, "income"),
     expense_total |-> LedgerTotal(identity, month, year, "expense"),
     balance |-> LedgerTotal(identity, month, year, "income")
                 - LedgerTotal(identity, month, year, "expense")]

SummaryCorrect ==
    \A token \in tokens, args \in SummaryArgs, today \in Todays :
        (response'.op = "summary" /\ summary(token, args, today))
        => response'.json =
              SummaryOf(token.identity,
                        IF "month" \in DOMAIN args THEN args.month
                                                   ELSE today.month,
                        IF "year" \in DOMAIN args THEN args.year
                                                  ELSE today.year)

(***************************************************************************)
(* C1: cross-user isolation.  The list and the get of a caller show only   *)
(* transactions the caller owns, the caller's summary counts only the      *)
(* caller's transactions, an update or delete aimed at another user's      *)
(* transaction is answered not-found (404) and changes no transaction, and *)
(* no request changes or removes a transaction of a user other than its    *)
(* caller.                                                                 *)
(***************************************************************************)
ListIsolated ==
    (response.op = "get_transactions" /\ response.code = 200)
    => \A j \in response.json.transactions :
          \E t \in transactions : t.id = j.id /\ OwnedBy(t, response.identity)

GetIsolated ==
    (response.op = "get_transaction_by_id" /\ response.code = 200)
    => \E t \in transactions :
          /\ t.id = response.target
          /\ t.id = response.json.transaction.id
          /\ OwnedBy(t, response.identity)

ForeignWriteRejected ==
    (/\ response'.op \in {"update_transaction", "delete_transaction"}
     /\ Authenticated(response')
     /\ \E t \in transactions :
           t.id = response'.target /\ ~OwnedBy(t, response'.identity))
    => response'.code = 404 /\ transactions' = transactions

OthersUntouched ==
    \A t \in transactions :
        ~OwnedBy(t, response'.identity) => t \in transactions'

C1_CrossUserIsolation ==
    [][/\ ListIsolated' /\ GetIsolated' /\ SummaryCorrect
       /\ ForeignWriteRejected /\ OthersUntouched]_vars

\* the second user aimed an update at a transaction of the first
C1_Witness ==
    /\ response.op = "update_transaction" /\ response.code = 404
    /\ response.identity = "2"
    /\ \E t \in transactions : t.id = response.target /\ t.user_id = 1

(***************************************************************************)
(* C2: summary returns, for the caller and the month and year asked for    *)
(* (today's when not given), income_total = the sum of the amounts of the  *)
(* caller's 'income' transactions dated in that month and year,            *)
(* expense_total = the same over 'expense', balance = income_total -       *)
(* expense_total; nothing else contributes.                                *)
(***************************************************************************)
C2_SummaryTotals == [][SummaryCorrect]_vars

\* the scenario of the specification, beside rows that must not count
C2_Witness ==
    /\ response.op = "summary"
    /\ response.json = [income_total |-> 500, expense_total |-> 200,
                        balance |-> 300]
    /\ Cardinality(transactions) >= 2

(***************************************************************************)
(* C6: get_transaction_by_id answers not-found (404) for an id that does   *)
(* not exist and for an id owned by another user alike, and returns the    *)
(* transaction only when the caller owns it.                               *)
(***************************************************************************)
C6_GetNotFound ==
    (response.op = "get_transaction_by_id" /\ Authenticated(response))
    => IF \E t \in transactions :
             t.id = response.target /\ OwnedBy(t, response.identity)
       THEN response.code = 200
            /\ response.json.transaction.id = response.target
       ELSE response.code = 404

(***************************************************************************)
(* Vocabulary of the location claims.                                      *)
(***************************************************************************)
References(t, l) == t.location_id = l.name

CompleteLocation(data) ==
    /\ Carries(data, "name")
    /\ "latitude" \in DOMAIN data /\ "longitude" \in DOMAIN data

InUse == [error |-> "Lokasi tidak bisa dihapus karena sedang digunakan"]

(***************************************************************************)
(* C3: delete_location on an existing Location that no transaction         *)
(* references succeeds and removes it; when a transaction references it by *)
(* name the delete fails with the "in use" error, and the Location and     *)
(* every transaction are still present and unchanged.                      *)
(***************************************************************************)
DeleteLocationGuarded ==
    \A l \in locations :
        (/\ response'.op = "delete_location" /\ Authenticated(response')
         /\ response'.target = l.id)
        => IF \E t \in transactions : References(t, l)
           THEN /\ response'.code = 400 /\ response'.json = InUse
                /\ locations' = locations
                /\ transactions' = transactions
           ELSE /\ response'.code = 200
                /\ locations' = locations \ {l}
                /\ transactions' = transactions

C3_DeleteLocation == [][DeleteLocationGuarded]_vars

\* the second user tried to delete a Location a transaction of the first names
C3_Witness ==
    /\ response.op = "delete_location" /\ response.json = InUse
    /\ response.identity = "2"
    /\ \E l \in locations :
          /\ l.id = response.target
          /\ \E t \in transactions : References(t, l) /\ t.user_id = 1

(***************************************************************************)
(* C7: update_transaction validates like add_transaction: a body that      *)
(* create rejects is rejected by update on an owned transaction, a         *)
(* location reference that names no Location gets the validation reply     *)
(* (400), and the stored transaction keeps its values.                     *)
(***************************************************************************)
UnknownLocation(data) ==
    /\ Carries(data, "location_id")
    /\ ~\E l \in locations : l.name = data["location_id"]

CreateRejects(data) ==
    \/ UnknownLocation(data)
    \/ ~({"type", "amount", "category", "date"} \subseteq DOMAIN data)

UpdateValidates ==
    \A token \in tokens, id \in TransactionIds, data \in TaggedBodies :
        (/\ response'.op = "update_transaction"
         /\ \E t \in transactions : t.id = id /\ OwnedBy(t, token.identity)
         /\ CreateRejects(data)
         /\ update_transaction(token, id, data))
        => /\ response'.code >= 400
           /\ UnknownLocation(data) => response'.code = 400
           /\ transactions' = transactions

C7_UpdateValidatesLikeCreate == [][UpdateValidates]_vars

(***************************************************************************)
(* C8: location name uniqueness.  No two stored Locations share a name; an *)
(* add_location with a complete body whose name is taken, and an           *)
(* update_location with a complete body whose name another Location holds, *)
(* get the conflict reply (409) and change nothing; an update_location     *)
(* that keeps the Location's own name succeeds.                            *)
(***************************************************************************)
LocationNamesUnique == \A a, b \in locations : a.name = b.name => a = b

AddLocationConflict ==
    \A token \in tokens, data \in LocationBodies :
        (/\ response'.op = "add_location"
         /\ CompleteLocation(data)
         /\ \E l \in locations : l.name = data["name"]
         /\ add_location(token, data))
        => response'.code = 409 /\ locations' = locations

UpdateLocationConflict ==
    \A token \in tokens, data \in LocationUpdates, l \in locations :
        (/\ response'.op = "update_location" /\ response'.target = l.id
         /\ CompleteLocation(data)
         /\ update_location(token, l.id, data))
        => IF \E o \in locations : o.name = data["name"] /\ o.id # l.id
           THEN response'.code = 409 /\ locations' = locations
           ELSE l.name = data["name"]
                => /\ response'.code = 200
                   /\ \E u \in locations' : u.id = l.id /\ u.name = l.name

C8_LocationNameUniqueness ==
    /\ LocationNamesUnique
    /\ [][LocationNamesUnique' /\ AddLocationConflict
          /\ UpdateLocationConflict]_vars

\* a rename to the name of the other Location was refused
C8_Witness ==
    /\ response.op = "update_location" /\ response.code = 409
    /\ Cardinality(locations) = 2

(***************************************************************************)
(* C9: a request that ends in an error reply (validation, conflict, auth,  *)
(* not-found, write failure) leaves the stored users, locations and        *)
(* transactions exactly as they were.                                      *)
(***************************************************************************)
ErrorsChangeNothing ==
    response'.code >= 400
    => /\ users' = users
       /\ locations' = locations
       /\ transactions' = transactions

C9_ErrorsChangeNothing == [][ErrorsChangeNothing]_vars

\* the database refused the commit of an update: a write failure
C9_Witness ==
    /\ response.op = "update_transaction" /\ response.code = 500
    /\ fkEnforced
    /\ \E t \in transactions : t.id = response.target /\ t.location_id = NULL
    /\ locations = {}

(***************************************************************************)
(* C10: every stored transaction whose location reference is not null      *)
(* names a Location that exists.                                           *)
(***************************************************************************)
C10_LocationReferencesResolve ==
    \A t \in transactions :
        t.location_id # NULL => \E l \in locations : References(t, l)

====
